---- MODULE Spec2Model ----
(***************************************************************************)
(* Progressive income-tax calculator (src/app.py).                         *)
(*                                                                         *)
(* The program computes with Python numbers: widget values and bracket     *)
(* bounds are ints, rates and tax amounts are floats (IEEE-754 binary64,   *)
(* round-to-nearest-even).  The floats are modelled bit-exactly: a float   *)
(* is a sign, an odd mantissa of at most 53 bits and a binary exponent,    *)
(* and every operation rounds its exact result the way the hardware does.  *)
(* The mantissa does not fit a 32-bit integer, so it is kept as a          *)
(* little-endian sequence of 15-bit limbs.                                 *)
(***************************************************************************)
EXTENDS Integers, Sequences, FiniteSets, TLC

\* ------------------------------------------------------------------------
\* Natural numbers of arbitrary size: sequences of limbs, least significant
\* first, without leading zero limbs; << >> is zero.
\* ------------------------------------------------------------------------
LimbBits == 15

Base == 32768

MantissaBits == 53

RECURSIVE Pow2(_)
Pow2(k) == IF k = 0 THEN 1 ELSE 2 * Pow2(k - 1)

RECURSIVE BNorm(_)
BNorm(a) ==
    IF a = << >> THEN << >>
    ELSE IF a[Len(a)] = 0 THEN BNorm(SubSeq(a, 1, Len(a) - 1))
    ELSE a

RECURSIVE BFromInt(_)
BFromInt(n) ==
    IF n = 0 THEN << >> ELSE << n % Base >> \o BFromInt(n \div Base)

RECURSIVE BToInt(_)
BToInt(a) ==
    IF a = << >> THEN 0 ELSE Head(a) + Base * BToInt(Tail(a))

Limb(a, i) == IF i >= 1 /\ i <= Len(a) THEN a[i] ELSE 0

RECURSIVE BAddC(_, _, _)
BAddC(a, b, c) ==
    IF a = << >> /\ b = << >>
    THEN (IF c = 0 THEN << >> ELSE << c >>)
    ELSE LET s == Limb(a, 1) + Limb(b, 1) + c
         IN  << s % Base >>
             \o BAddC(IF a = << >> THEN a ELSE Tail(a),
                      IF b = << >> THEN b ELSE Tail(b),
                      s \div Base)

BAdd(a, b) == BAddC(a, b, 0)

\* a - b for a >= b
RECURSIVE BSubC(_, _, _)
BSubC(a, b, c) ==
    IF a = << >> THEN << >>
    ELSE LET d == a[1] - Limb(b, 1) - c
         IN  << IF d < 0 THEN d + Base ELSE d >>
             \o BSubC(Tail(a),
                      IF b = << >> THEN b ELSE Tail(b),
                      IF d < 0 THEN 1 ELSE 0)

BSub(a, b) == BNorm(BSubC(a, b, 0))

\* -1, 0, 1 as a is below, equal to, above b
RECURSIVE BCmpFrom(_, _, _)
BCmpFrom(a, b, i) ==
    IF i = 0 THEN 0
    ELSE IF a[i] < b[i] THEN -1
    ELSE IF a[i] > b[i] THEN 1
    ELSE BCmpFrom(a, b, i - 1)

BCmp(a, b) ==
    IF Len(a) < Len(b) THEN -1
    ELSE IF Len(a) > Len(b) THEN 1
    ELSE BCmpFrom(a, b, Len(a))

\* a * k + c for a limb k
RECURSIVE BMulSmall(_, _, _)
BMulSmall(a, k, c) ==
    IF a = << >>
    THEN (IF c = 0 THEN << >> ELSE << c >>)
    ELSE LET p == a[1] * k + c
         IN  << p % Base >> \o BMulSmall(Tail(a), k, p \div Base)

RECURSIVE BMul(_, _)
BMul(a, b) ==
    IF a = << >> \/ b = << >> THEN << >>
    ELSE BNorm(BAdd(BMulSmall(a, Head(b), 0), << 0 >> \o BMul(a, Tail(b))))

RECURSIVE Zeros(_)
Zeros(k) == IF k = 0 THEN << >> ELSE << 0 >> \o Zeros(k - 1)

BShl(a, k) ==
    IF a = << >> THEN << >>
    ELSE BNorm(Zeros(k \div LimbBits) \o BMulSmall(a, Pow2(k % LimbBits), 0))

\* the limbs of floor(a / 2^r) from limb i on, for r below LimbBits
RECURSIVE BShrLimbs(_, _, _)
BShrLimbs(a, i, r) ==
    IF i > Len(a) THEN << >>
    ELSE << (a[i] \div Pow2(r)) + (Limb(a, i + 1) % Pow2(r)) * Pow2(LimbBits - r) >>
         \o BShrLimbs(a, i + 1, r)

\* floor(a / 2^k)
BShr(a, k) == BNorm(BShrLimbs(a, (k \div LimbBits) + 1, k % LimbBits))

RECURSIVE IntBitLen(_)
IntBitLen(n) == IF n = 0 THEN 0 ELSE 1 + IntBitLen(n \div 2)

BBitLen(a) ==
    IF a = << >> THEN 0
    ELSE LimbBits * (Len(a) - 1) + IntBitLen(a[Len(a)])

BBit(a, i) == (Limb(a, (i \div LimbBits) + 1) \div Pow2(i % LimbBits)) % 2

\* the low k bits of a are all zero
BLowZero(a, k) == BShl(BShr(a, k), k) = a

RECURSIVE IntTrailingZeros(_)
IntTrailingZeros(n) == IF n % 2 = 1 THEN 0 ELSE 1 + IntTrailingZeros(n \div 2)

\* number of trailing zero bits of a nonzero a
RECURSIVE BTrailingZeros(_)
BTrailingZeros(a) ==
    IF Head(a) = 0 THEN LimbBits + BTrailingZeros(Tail(a))
    ELSE IntTrailingZeros(Head(a))

\* the largest digit q with d * q <= r, for r < d * Base: the bits of q
\* from bit i down, added to acc
RECURSIVE BDigit(_, _, _, _)
BDigit(r, d, i, acc) ==
    IF i < 0 THEN acc
    ELSE LET cand == acc + Pow2(i)
         IN  IF BCmp(BMulSmall(d, cand, 0), r) <= 0
             THEN BDigit(r, d, i - 1, cand)
             ELSE BDigit(r, d, i - 1, acc)

\* quotient and remainder of n by d, d nonzero (long division by limbs)
RECURSIVE BDivMod(_, _)
BDivMod(n, d) ==
    IF n = << >> THEN [q |-> << >>, r |-> << >>]
    ELSE LET h   == BDivMod(Tail(n), d)
             r1  == BNorm(<< Head(n) >> \o h.r)
             dig == BDigit(r1, d, LimbBits - 1, 0)
         IN  [q |-> BNorm(<< dig >> \o h.q),
              r |-> BSub(r1, BMulSmall(d, dig, 0))]

\* ------------------------------------------------------------------------
\* Python float: (-1)^neg * m * 2^e with m odd and below 2^53, or zero.
\* The representation is canonical: two floats are equal exactly when
\* their records are.  Infinities, NaN, subnormals and the sign of zero do
\* not arise from the program's amounts and are not represented.
\* ------------------------------------------------------------------------
FZero == [neg |-> FALSE, m |-> << >>, e |-> 0]

FCanon(neg, m, e) ==
    IF m = << >> THEN FZero
    ELSE LET tz == BTrailingZeros(m)
         IN  [neg |-> neg, m |-> BShr(m, tz), e |-> e + tz]

\* the float nearest to (m + f) * 2^e, ties to even, where 0 <= f < 1 and
\* sticky says f > 0; with sticky, m has more than 53 bits
FRound(neg, m, e, sticky) ==
    LET n == BBitLen(m)
    IN  IF n <= MantissaBits THEN FCanon(neg, m, e)
        ELSE LET k    == n - MantissaBits
                 q    == BShr(m, k)
                 half == BBit(m, k - 1) = 1
                 low  == sticky \/ ~BLowZero(m, k - 1)
                 up   == half /\ (low \/ BBit(q, 0) = 1)
             IN  FCanon(neg, IF up THEN BAdd(q, << 1 >>) ELSE q, e + k)

FAbsInt(n) == IF n < 0 THEN -n ELSE n

\* int -> float conversion (exact below 2^53)
FFromInt(n) == FCanon(n < 0, BFromInt(FAbsInt(n)), 0)

FNeg(x) == IF x.m = << >> THEN x ELSE [x EXCEPT !.neg = ~x.neg]

FMul(x, y) == FRound(x.neg # y.neg, BMul(x.m, y.m), x.e + y.e, FALSE)

FAdd(x, y) ==
    IF x.m = << >> THEN y
    ELSE IF y.m = << >> THEN x
    ELSE LET e == IF x.e < y.e THEN x.e ELSE y.e
             a == BShl(x.m, x.e - e)
             b == BShl(y.m, y.e - e)
             c == BCmp(a, b)
         IN  IF x.neg = y.neg THEN FRound(x.neg, BAdd(a, b), e, FALSE)
             ELSE IF c = 0 THEN FZero
             ELSE IF c > 0 THEN FRound(x.neg, BSub(a, b), e, FALSE)
             ELSE FRound(y.neg, BSub(b, a), e, FALSE)

FSub(x, y) == FAdd(x, FNeg(y))

\* x / y for y nonzero
FDiv(x, y) ==
    IF x.m = << >> THEN FZero
    ELSE LET need == (MantissaBits + 3) + BBitLen(y.m) - BBitLen(x.m)
             s    == IF need > 0 THEN need ELSE 0
             d    == BDivMod(BShl(x.m, s), y.m)
         IN  FRound(x.neg # y.neg, d.q, x.e - y.e - s, d.r # << >>)

\* x < y  (the sign of the exact difference survives rounding)
FLess(x, y) == FSub(x, y).neg

FLeq(x, y) == ~FLess(y, x)

FMax(x, y) == IF FLess(x, y) THEN y ELSE x

RECURSIVE Pow10(_)
Pow10(d) == IF d = 0 THEN 1 ELSE 10 * Pow10(d - 1)

\* the digits after the d-th dropped instead of rounded
FormatFixed_Truncate(x, d) ==
    LET n   == BMulSmall(x.m, Pow10(d), 0)
        mag == IF x.e >= 0 THEN BToInt(BShl(n, x.e)) ELSE BToInt(BShr(n, -x.e))
    IN  IF x.neg THEN -mag ELSE mag

\* format(x, ".<d>f"): the decimal with d places nearest to the exact value
\* of x, ties to even; returned as the integer x * 10^d rounded
FormatFixed(x, d) ==
    LET n == BMulSmall(x.m, Pow10(d), 0)
        k == -x.e
        q == BShr(n, k)
        half == BBit(n, k - 1) = 1
        low  == ~BLowZero(n, k - 1)
        up   == half /\ (low \/ BBit(q, 0) = 1)
        mag  == IF x.e >= 0 THEN BToInt(BShl(n, x.e))
                ELSE BToInt(q) + (IF up THEN 1 ELSE 0)
    IN  IF x.neg THEN -mag ELSE mag

\* the float a literal such as 0.11 denotes: the one nearest to num / den
FloatLiteral(num, den) == FDiv(FFromInt(num), FFromInt(den))

\* ------------------------------------------------------------------------
\* The bracket tables
\* ------------------------------------------------------------------------
\* float('inf') as a bracket's upper bound: above every int the program
\* compares it with (the widgets stop at 10,000,000)
inf == 2147483647

Brackets2025 ==
    << [min |-> 0,      max |-> 10064,  rate |-> FloatLiteral(0, 100)],
       [min |-> 10064,  max |-> 25659,  rate |-> FloatLiteral(11, 100)],
       [min |-> 25659,  max |-> 73369,  rate |-> FloatLiteral(30, 100)],
       [min |-> 73369,  max |-> 157806, rate |-> FloatLiteral(41, 100)],
       [min |-> 157806, max |-> inf,    rate |-> FloatLiteral(45, 100)] >>

\* the 2024 table with two digits of a bound swapped where it is repeated
Brackets2024_Typo ==
    << [min |-> 0,      max |-> 9875,   rate |-> FloatLiteral(0, 100)],
       [min |-> 9875,   max |-> 25175,  rate |-> FloatLiteral(10, 100)],
       [min |-> 25715,  max |-> 72000,  rate |-> FloatLiteral(28, 100)],
       [min |-> 72000,  max |-> 155000, rate |-> FloatLiteral(40, 100)],
       [min |-> 155000, max |-> inf,    rate |-> FloatLiteral(44, 100)] >>

Brackets2024 ==
    << [min |-> 0,      max |-> 9875,   rate |-> FloatLiteral(0, 100)],
       [min |-> 9875,   max |-> 25175,  rate |-> FloatLiteral(10, 100)],
       [min |-> 25175,  max |-> 72000,  rate |-> FloatLiteral(28, 100)],
       [min |-> 72000,  max |-> 155000, rate |-> FloatLiteral(40, 100)],
       [min |-> 155000, max |-> inf,    rate |-> FloatLiteral(44, 100)] >>

Brackets2023 ==
    << [min |-> 0,      max |-> 9325,   rate |-> FloatLiteral(0, 100)],
       [min |-> 9325,   max |-> 24500,  rate |-> FloatLiteral(10, 100)],
       [min |-> 24500,  max |-> 70500,  rate |-> FloatLiteral(27, 100)],
       [min |-> 70500,  max |-> 152000, rate |-> FloatLiteral(39, 100)],
       [min |-> 152000, max |-> inf,    rate |-> FloatLiteral(43, 100)] >>

Brackets2022 ==
    << [min |-> 0,      max |-> 8900,   rate |-> FloatLiteral(0, 100)],
       [min |-> 8900,   max |-> 23850,  rate |-> FloatLiteral(9, 100)],
       [min |-> 23850,  max |-> 68500,  rate |-> FloatLiteral(26, 100)],
       [min |-> 68500,  max |-> 148000, rate |-> FloatLiteral(38, 100)],
       [min |-> 148000, max |-> inf,    rate |-> FloatLiteral(42, 100)] >>

TaxTables ==
    [y \in {"2025", "2024", "2023", "2022"} |->
       IF y = "2025" THEN Brackets2025
       ELSE IF y = "2024" THEN Brackets2024
       ELSE IF y = "2023" THEN Brackets2023
       ELSE Brackets2022]

VARIABLES
    TAX_BRACKETS_BY_YEAR,   \* the module-level dict of bracket tables
    income,                 \* the income argument of the calls
    year,                   \* the year argument of the calls
    returned,               \* the functions that have returned
    total_tax,              \* what calculate_tax returned
    breakdown,              \* what get_bracket_breakdown returned
    tab1,                   \* the simple calculation: its widgets and what it shows
    tab2,                   \* the comparison of scenarios: its widgets and what it shows
    tab3,                   \* the historical comparison: its widgets and what it shows
    calls                   \* the calls made so far, each with what it returned

vars ==
    << TAX_BRACKETS_BY_YEAR, income, year, returned, total_tax, breakdown,
       tab1, tab2, tab3, calls >>

\* a lookup that falls back to a table of its own choice
DictGet_WrongDefault(d, key, default) == IF key \in DOMAIN d THEN d[key] ELSE d["2024"]

\* dict.get(key, default)
DictGet(d, key, default) == IF key \in DOMAIN d THEN d[key] ELSE default

\* a min that returns its first argument
PyMin_First(a, b) == a

\* min(a, b) of two numbers
PyMin(a, b) == IF b < a THEN b ELSE a

\* the difference taken the wrong way round
taxable_in_bracket_Swapped(inc, bracket) == bracket.min - PyMin(inc, bracket.max)

\* the part of the income that lies in the bracket, and the tax on it
taxable_in_bracket(inc, bracket) == PyMin(inc, bracket.max) - bracket.min

\* the whole bracket taxed as soon as the income enters it
tax_in_bracket_FullWidth(inc, bracket) ==
    FMul(FFromInt(bracket.max - bracket.min), bracket.rate)

tax_in_bracket(inc, bracket) ==
    FMul(FFromInt(taxable_in_bracket(inc, bracket)), bracket.rate)

\* the loop without its test income > bracket.min
RECURSIVE CalculateTaxLoop_NoGuard(_, _, _, _)
CalculateTaxLoop_NoGuard(brackets, inc, i, total) ==
    IF i > Len(brackets) THEN total
    ELSE CalculateTaxLoop_NoGuard(brackets, inc, i + 1,
                                  FAdd(total, tax_in_bracket(inc, brackets[i])))

\* the loop of calculate_tax from bracket i on, total being the sum so far
RECURSIVE CalculateTaxLoop(_, _, _, _)
CalculateTaxLoop(brackets, inc, i, total) ==
    IF i > Len(brackets) THEN total
    ELSE IF inc > brackets[i].min
         THEN CalculateTaxLoop(brackets, inc, i + 1,
                               FAdd(total, tax_in_bracket(inc, brackets[i])))
         ELSE CalculateTaxLoop(brackets, inc, i + 1, total)

\* the int 0 the loop starts from (and returns when no bracket applies) is
\* the float zero: Python's 0 == 0.0 and 0 + x is x
calculate_tax(inc, yr) ==
    LET brackets == DictGet(TAX_BRACKETS_BY_YEAR, yr, TAX_BRACKETS_BY_YEAR["2025"])
    IN  CalculateTaxLoop(brackets, inc, 1, FFromInt(0))

\* an entry whose raw amount is the tax on the whole bracket
BreakdownEntry_FullWidth(inc, bracket) ==
    [ Tranche          |-> IF bracket.max = inf
                           THEN << bracket.min >>
                           ELSE << bracket.min, bracket.max >>,
      Taux             |-> FormatFixed(FMul(bracket.rate, FFromInt(100)), 0),
      Revenu_Imposable |-> FormatFixed(FFromInt(taxable_in_bracket(inc, bracket)), 2),
      Montant_d_Impot  |-> FormatFixed(tax_in_bracket(inc, bracket), 2),
      tax_amount_raw   |-> FMul(FFromInt(bracket.max - bracket.min), bracket.rate) ]

\* One entry of the breakdown.  The strings are kept as what they show:
\* the label as its bound or bounds, the percentage as an integer, the
\* amounts as integers of cents.
BreakdownEntry(inc, bracket) ==
    [ Tranche          |-> IF bracket.max = inf
                           THEN << bracket.min >>
                           ELSE << bracket.min, bracket.max >>,
      Taux             |-> FormatFixed(FMul(bracket.rate, FFromInt(100)), 0),
      Revenu_Imposable |-> FormatFixed(FFromInt(taxable_in_bracket(inc, bracket)), 2),
      Montant_d_Impot  |-> FormatFixed(tax_in_bracket(inc, bracket), 2),
      tax_amount_raw   |-> tax_in_bracket(inc, bracket) ]

\* the loop with >= for >
RECURSIVE BreakdownLoop_Geq(_, _, _)
BreakdownLoop_Geq(brackets, inc, i) ==
    IF i > Len(brackets) THEN << >>
    ELSE IF inc >= brackets[i].min
         THEN << BreakdownEntry(inc, brackets[i]) >> \o BreakdownLoop_Geq(brackets, inc, i + 1)
         ELSE BreakdownLoop_Geq(brackets, inc, i + 1)

\* the loop with a row for every bracket
RECURSIVE BreakdownLoop_NoGuard(_, _, _)
BreakdownLoop_NoGuard(brackets, inc, i) ==
    IF i > Len(brackets) THEN << >>
    ELSE << BreakdownEntry(inc, brackets[i]) >> \o BreakdownLoop_NoGuard(brackets, inc, i + 1)

RECURSIVE BreakdownLoop(_, _, _)
BreakdownLoop(brackets, inc, i) ==
    IF i > Len(brackets) THEN << >>
    ELSE IF inc > brackets[i].min
         THEN << BreakdownEntry(inc, brackets[i]) >> \o BreakdownLoop(brackets, inc, i + 1)
         ELSE BreakdownLoop(brackets, inc, i + 1)

get_bracket_breakdown(inc, yr) ==
    LET brackets == DictGet(TAX_BRACKETS_BY_YEAR, yr, TAX_BRACKETS_BY_YEAR["2025"])
    IN  BreakdownLoop(brackets, inc, 1)

\* a max that returns its second argument
PyMax_Second(a, b) == b

\* max(a, b) of two ints
PyMax(a, b) == IF b > a THEN b ELSE a

\* The tables generate_pdf_report lays out: the summary values and one row
\* per breakdown entry, each amount as the integer of cents (or hundredths
\* of a percent) its string shows.  The document around them is left out.
generate_pdf_report(inc, deductions, credits, taxable_income, tax, effective_rate, net_income, entries) ==
    [ summary_data |->
        [ Revenu_Brut        |-> FormatFixed(FFromInt(inc), 2),
          Deductions_Totales |-> FormatFixed(FFromInt(deductions), 2),
          Credits_d_Impot    |-> FormatFixed(FFromInt(credits), 2),
          Revenu_Imposable   |-> FormatFixed(FFromInt(taxable_income), 2),
          Impot_Total_Du     |-> FormatFixed(tax, 2),
          Taux_Effectif      |-> FormatFixed(effective_rate, 2),
          Revenu_Net         |-> FormatFixed(net_income, 2) ],
      bracket_data |->
        [ j \in 1..Len(entries) |->
            << entries[j].Tranche, entries[j].Taux,
               entries[j].Revenu_Imposable, entries[j].Montant_d_Impot >> ] ]

\* the simple calculation before it has run: the widgets hold their values
Tab1Inputs(inc, deductions, credits) ==
    [ pc               |-> "inputs",
      income           |-> inc,
      total_deductions |-> deductions,
      total_credits    |-> credits,
      taxable_income   |-> 0,
      gross_tax        |-> FZero,
      total_tax        |-> FZero,
      effective_rate   |-> FZero,
      net_income       |-> FZero,
      metrics          |-> [ Impot_Total_Du |-> 0, Revenu_Net |-> 0,
                             Taux_Effectif |-> 0, Revenu_Brut |-> 0 ],
      breakdown        |-> << >>,
      pdf              |-> << >> ]

\* the simple calculation with the breakdown taken of the gross income
Tab1Shown_BreakdownOfIncome(inc, deductions, credits) ==
    LET taxable_income == PyMax(0, inc - deductions)
        gross_tax      == calculate_tax(taxable_income, "2025")
        tax            == FMax(FFromInt(0), FSub(gross_tax, FFromInt(credits)))
        effective_rate == FMul(FDiv(tax, FFromInt(inc)), FFromInt(100))
        net_income     == FSub(FFromInt(inc), tax)
        entries        == get_bracket_breakdown(inc, "2025")
    IN  [ pc               |-> "shown",
          income           |-> inc,
          total_deductions |-> deductions,
          total_credits    |-> credits,
          taxable_income   |-> taxable_income,
          gross_tax        |-> gross_tax,
          total_tax        |-> tax,
          effective_rate   |-> effective_rate,
          net_income       |-> net_income,
          metrics          |-> [ Impot_Total_Du |-> FormatFixed(tax, 2),
                                 Revenu_Net     |-> FormatFixed(net_income, 2),
                                 Taux_Effectif  |-> FormatFixed(effective_rate, 2),
                                 Revenu_Brut    |-> FormatFixed(FFromInt(inc), 2) ],
          breakdown        |-> entries,
          pdf              |-> << generate_pdf_report(inc, deductions, credits,
                                     taxable_income, tax, effective_rate,
                                     net_income, entries) >> ]

\* the simple calculation for an income above 0: the summary, its metrics,
\* the breakdown and the report made from them
Tab1Shown(inc, deductions, credits) ==
    LET taxable_income == PyMax(0, inc - deductions)
        gross_tax      == calculate_tax(taxable_income, "2025")
        tax            == FMax(FFromInt(0), FSub(gross_tax, FFromInt(credits)))
        effective_rate == FMul(FDiv(tax, FFromInt(inc)), FFromInt(100))
        net_income     == FSub(FFromInt(inc), tax)
        entries        == get_bracket_breakdown(taxable_income, "2025")
    IN  [ pc               |-> "shown",
          income           |-> inc,
          total_deductions |-> deductions,
          total_credits    |-> credits,
          taxable_income   |-> taxable_income,
          gross_tax        |-> gross_tax,
          total_tax        |-> tax,
          effective_rate   |-> effective_rate,
          net_income       |-> net_income,
          metrics          |-> [ Impot_Total_Du |-> FormatFixed(tax, 2),
                                 Revenu_Net     |-> FormatFixed(net_income, 2),
                                 Taux_Effectif  |-> FormatFixed(effective_rate, 2),
                                 Revenu_Brut    |-> FormatFixed(FFromInt(inc), 2) ],
          breakdown        |-> entries,
          pdf              |-> << generate_pdf_report(inc, deductions, credits,
                                     taxable_income, tax, effective_rate,
                                     net_income, entries) >> ]

\* the comparison of scenarios before it has run: one triple of widget
\* values (income, deductions, credits) per column
Tab2Inputs(inputs) ==
    [ pc              |-> "inputs",
      inputs          |-> inputs,
      scenarios       |-> << >>,
      metrics         |-> << >>,
      comparison_data |-> << >>,
      tax_values      |-> << >>,
      net_values      |-> << >> ]

\* what one column of the comparison computes from its three widgets
Scenario(inc, deductions, credits) ==
    LET taxable        == PyMax(0, inc - deductions)
        gross_tax      == calculate_tax(taxable, "2025")
        tax            == FMax(FFromInt(0), FSub(gross_tax, FFromInt(credits)))
        effective_rate == IF inc > 0
                          THEN FMul(FDiv(tax, FFromInt(inc)), FFromInt(100))
                          ELSE FFromInt(0)
        net_income     == FSub(FFromInt(inc), tax)
    IN  [ income         |-> inc,
          deductions     |-> deductions,
          credits        |-> credits,
          taxable_income |-> taxable,
          tax_owed       |-> tax,
          effective_rate |-> effective_rate,
          net_income     |-> net_income ]

\* the comparison once the script has run through it: the scenarios, the
\* three metrics of each column, the column of each scenario in the table
\* (amounts in cents, the rate in hundredths of a percent) and the values
\* of the two bar series
Tab2Shown(inputs) ==
    LET scenarios ==
            [ i \in 1..Len(inputs) |->
                Scenario(inputs[i].income, inputs[i].deductions, inputs[i].credits) ]
    IN  [ pc              |-> "shown",
          inputs          |-> inputs,
          scenarios       |-> scenarios,
          metrics         |->
              [ i \in 1..Len(inputs) |->
                  [ Impot_Du      |-> FormatFixed(scenarios[i].tax_owed, 2),
                    Taux_Effectif |-> FormatFixed(scenarios[i].effective_rate, 2),
                    Revenu_Net    |-> FormatFixed(scenarios[i].net_income, 2) ] ],
          comparison_data |->
              [ i \in 1..Len(inputs) |->
                  << FormatFixed(FFromInt(scenarios[i].income), 2),
                     FormatFixed(FFromInt(scenarios[i].deductions), 2),
                     FormatFixed(FFromInt(scenarios[i].credits), 2),
                     FormatFixed(FFromInt(scenarios[i].taxable_income), 2),
                     FormatFixed(scenarios[i].tax_owed, 2),
                     FormatFixed(scenarios[i].effective_rate, 2),
                     FormatFixed(scenarios[i].net_income, 2) >> ],
          tax_values      |-> [ i \in 1..Len(inputs) |-> scenarios[i].tax_owed ],
          net_values      |-> [ i \in 1..Len(inputs) |-> scenarios[i].net_income ] ]

\* the years the multiselect of the historical comparison offers
YearOptions == << "2022", "2023", "2024", "2025" >>

\* a < b for two of these strings: they are four digits each, so Python's
\* string order is the order in which the options are listed
StrLess(a, b) ==
    (CHOOSE i \in 1..Len(YearOptions) : YearOptions[i] = a)
        < (CHOOSE i \in 1..Len(YearOptions) : YearOptions[i] = b)

RECURSIVE SortedInsert(_, _)
SortedInsert(y, seq) ==
    IF seq = << >> THEN << y >>
    ELSE IF StrLess(y, Head(seq)) THEN << y >> \o seq
         ELSE << Head(seq) >> \o SortedInsert(y, Tail(seq))

\* sorted(seq): the strings in ascending order
RECURSIVE sorted(_)
sorted(seq) ==
    IF seq = << >> THEN << >> ELSE SortedInsert(Head(seq), sorted(Tail(seq)))

\* One row of the table of the historical comparison.  prev_tax is << >>
\* for None and << t >> for the float t.  The last column is << >> for
\* "N/A" and otherwise the two numbers its string shows: the difference in
\* cents and its percentage in hundredths.
HistRow(inc, yr, prev_tax) ==
    LET tax            == calculate_tax(inc, yr)
        effective_rate == FMul(FDiv(tax, FFromInt(inc)), FFromInt(100))
        net_income     == FSub(FFromInt(inc), tax)
    IN  [ Annee         |-> yr,
          Impot_Du      |-> FormatFixed(tax, 2),
          Taux_Effectif |-> FormatFixed(effective_rate, 2),
          Revenu_Net    |-> FormatFixed(net_income, 2),
          Difference    |->
              IF prev_tax = << >> THEN << >>
              ELSE LET diff     == FSub(tax, prev_tax[1])
                       diff_pct == IF FLess(FFromInt(0), prev_tax[1])
                                   THEN FMul(FDiv(diff, prev_tax[1]), FFromInt(100))
                                   ELSE FFromInt(0)
                   IN  << FormatFixed(diff, 2), FormatFixed(diff_pct, 2) >> ]

\* the loop with prev_tax set by the first year only
RECURSIVE HistLoop_KeepFirst(_, _, _, _)
HistLoop_KeepFirst(years, inc, j, prev_tax) ==
    IF j > Len(years) THEN << >>
    ELSE << HistRow(inc, years[j], prev_tax) >>
             \o HistLoop_KeepFirst(years, inc, j + 1,
                                   IF prev_tax = << >>
                                   THEN << calculate_tax(inc, years[j]) >>
                                   ELSE prev_tax)

\* the loop over sorted_years from the j-th year on
RECURSIVE HistLoop(_, _, _, _)
HistLoop(years, inc, j, prev_tax) ==
    IF j > Len(years) THEN << >>
    ELSE << HistRow(inc, years[j], prev_tax) >>
             \o HistLoop(years, inc, j + 1, << calculate_tax(inc, years[j]) >>)

\* one point of the chart of the historical comparison
YearComparison(inc, yr) ==
    LET tax == calculate_tax(inc, yr)
    IN  [ year           |-> yr,
          tax            |-> tax,
          effective_rate |-> FMul(FDiv(tax, FFromInt(inc)), FFromInt(100)),
          net_income     |-> FSub(FFromInt(inc), tax) ]

\* the columns of a breakdown entry that are left once tax_amount_raw is dropped
DropRaw(entries) ==
    [ j \in 1..Len(entries) |->
        [ Tranche          |-> entries[j].Tranche,
          Taux             |-> entries[j].Taux,
          Revenu_Imposable |-> entries[j].Revenu_Imposable,
          Montant_d_Impot  |-> entries[j].Montant_d_Impot ] ]

\* the historical comparison before it has run
Tab3Inputs(inc, selected) ==
    [ pc               |-> "inputs",
      hist_income      |-> inc,
      selected_years   |-> selected,
      year_comparisons |-> << >>,
      hist_data        |-> << >>,
      year_tabs        |-> << >>,
      details          |-> << >> ]

\* the historical comparison for an income above 0 and at least one year:
\* the chart's points in the order of selection, the table and the
\* per-year details in the order of the years
Tab3Shown(inc, selected) ==
    LET sorted_years == sorted(selected)
    IN  [ pc               |-> "shown",
          hist_income      |-> inc,
          selected_years   |-> selected,
          year_comparisons |-> [ j \in 1..Len(selected) |-> YearComparison(inc, selected[j]) ],
          hist_data        |-> HistLoop(sorted_years, inc, 1, << >>),
          year_tabs        |-> sorted_years,
          details          |-> [ j \in 1..Len(sorted_years) |->
                                   DropRaw(get_bracket_breakdown(inc, sorted_years[j])) ] ]

\* ------------------------------------------------------------------------
\* The two functions applied to one (income, year)
\* ------------------------------------------------------------------------
\* how far around each bracket bound the incomes are taken
MaxDelta == 1

\* the income the simple calculation starts with (the widget's default)
DefaultIncome == 50000

Thresholds ==
    {0} \cup UNION {{TaxTables[y][i].min : i \in 1..Len(TaxTables[y])} : y \in DOMAIN TaxTables}

\* the largest income the widgets accept
MaxIncome == 10000000

Incomes ==
    {a + d : a \in Thresholds \cup {DefaultIncome, MaxIncome}, d \in (-MaxDelta)..MaxDelta}

UnknownYears == {"2021", "2026", ""}

Years == DOMAIN TaxTables \cup UnknownYears

Init ==
    /\ TAX_BRACKETS_BY_YEAR = TaxTables
    /\ income \in Incomes
    /\ year \in Years
    /\ returned = {}
    /\ total_tax = FZero
    /\ breakdown = << >>
    /\ tab1 = Tab1Inputs(0, 0, 0)
    /\ tab2 = Tab2Inputs(<< >>)
    /\ tab3 = Tab3Inputs(0, << >>)
    /\ calls = << >>

CalculateTax ==
    /\ "calculate_tax" \notin returned
    /\ total_tax' = calculate_tax(income, year)
    /\ returned' = returned \cup {"calculate_tax"}
    /\ UNCHANGED << TAX_BRACKETS_BY_YEAR, income, year, breakdown, tab1, tab2, tab3, calls >>

GetBracketBreakdown ==
    /\ "get_bracket_breakdown" \notin returned
    /\ breakdown' = get_bracket_breakdown(income, year)
    /\ returned' = returned \cup {"get_bracket_breakdown"}
    /\ UNCHANGED << TAX_BRACKETS_BY_YEAR, income, year, total_tax, tab1, tab2, tab3, calls >>

Next == CalculateTax \/ GetBracketBreakdown

Spec == Init /\ [][Next]_vars

\* ------------------------------------------------------------------------
\* The simple calculation (first tab)
\* ------------------------------------------------------------------------
\* how many steps each deduction and credit widget is raised from 0
MaxWidgetSteps == 1

Tab1Incomes == {0, 10064, 25000, DefaultIncome, 120000}

DeductionAmounts == {20000 * k : k \in 0..MaxWidgetSteps}

CreditAmounts == {4000 * k : k \in 0..MaxWidgetSteps}

InitTab1 ==
    /\ TAX_BRACKETS_BY_YEAR = TaxTables
    /\ income = 0
    /\ year = "2025"
    /\ returned = {}
    /\ total_tax = FZero
    /\ breakdown = << >>
    /\ \E inc \in Tab1Incomes :
       \E deduction_401k, deduction_medical, deduction_charitable, deduction_mortgage
              \in DeductionAmounts :
       \E credit_child, credit_education, credit_energy \in CreditAmounts :
           tab1 = Tab1Inputs(inc,
                             deduction_401k + deduction_medical
                                 + deduction_charitable + deduction_mortgage,
                             credit_child + credit_education + credit_energy)
    /\ tab2 = Tab2Inputs(<< >>)
    /\ tab3 = Tab3Inputs(0, << >>)
    /\ calls = << >>

\* one run of the script through the first tab; nothing is shown for income 0
Tab1Run ==
    /\ tab1.pc = "inputs"
    /\ tab1.income > 0
    /\ tab1' = Tab1Shown(tab1.income, tab1.total_deductions, tab1.total_credits)
    /\ UNCHANGED << TAX_BRACKETS_BY_YEAR, income, year, returned, total_tax, breakdown,
                    tab2, tab3, calls >>

NextTab1 == Tab1Run

SpecTab1 == InitTab1 /\ [][NextTab1]_vars

\* ------------------------------------------------------------------------
\* The comparison of scenarios (second tab), and the two flows together
\* ------------------------------------------------------------------------
\* the income the first scenario starts with (its widget's default)
DefaultScenarioIncome == 30000

Tab2Incomes == {0, DefaultScenarioIncome, 120000}

Tab2Deductions == {0, 40000}

Tab2Credits == {0, 5000}

\* what the widgets of one column can hold
ScenarioInputs ==
    [income : Tab2Incomes, deductions : Tab2Deductions, credits : Tab2Credits]

InitTab2 ==
    /\ TAX_BRACKETS_BY_YEAR = TaxTables
    /\ income = 0
    /\ year = "2025"
    /\ returned = {}
    /\ total_tax = FZero
    /\ breakdown = << >>
    /\ tab1 = Tab1Inputs(0, 0, 0)
    /\ \E num_scenarios \in {2, 3} : \E inputs \in [1..num_scenarios -> ScenarioInputs] :
           tab2 = Tab2Inputs(inputs)
    /\ tab3 = Tab3Inputs(0, << >>)
    /\ calls = << >>

\* one run of the script through the second tab
Tab2Run ==
    /\ tab2.pc = "inputs"
    /\ Len(tab2.inputs) \in {2, 3}
    /\ tab2' = Tab2Shown(tab2.inputs)
    /\ UNCHANGED << TAX_BRACKETS_BY_YEAR, income, year, returned, total_tax, breakdown,
                    tab1, tab3, calls >>

\* the simple calculation or the comparison, whichever tab is looked at
InitFlows == InitTab1 \/ InitTab2

NextFlows == Tab1Run \/ Tab2Run

SpecFlows == InitFlows /\ [][NextFlows]_vars

\* ------------------------------------------------------------------------
\* The historical comparison (third tab)
\* ------------------------------------------------------------------------
\* the income the historical comparison starts with (the widget's default)
DefaultHistIncome == 75000

Tab3Incomes == {0, 9000, DefaultHistIncome, MaxIncome}

\* what the multiselect can return: the chosen options, each once, in the
\* order they were chosen
Selections ==
    {s \in UNION {[1..n -> {YearOptions[i] : i \in 1..Len(YearOptions)}] :
                      n \in 0..Len(YearOptions)} :
        \A i, j \in DOMAIN s : i # j => s[i] # s[j]}

InitTab3 ==
    /\ TAX_BRACKETS_BY_YEAR = TaxTables
    /\ income = 0
    /\ year = "2025"
    /\ returned = {}
    /\ total_tax = FZero
    /\ breakdown = << >>
    /\ tab1 = Tab1Inputs(0, 0, 0)
    /\ tab2 = Tab2Inputs(<< >>)
    /\ \E inc \in Tab3Incomes : \E selected \in Selections :
           tab3 = Tab3Inputs(inc, selected)
    /\ calls = << >>

\* one run of the script through the third tab; nothing is shown without a
\* year or for income 0
Tab3Run ==
    /\ tab3.pc = "inputs"
    /\ tab3.selected_years # << >>
    /\ tab3.hist_income > 0
    /\ tab3' = Tab3Shown(tab3.hist_income, tab3.selected_years)
    /\ UNCHANGED << TAX_BRACKETS_BY_YEAR, income, year, returned, total_tax, breakdown,
                    tab1, tab2, calls >>

NextTab3 == Tab3Run

SpecTab3 == InitTab3 /\ [][NextTab3]_vars

\* ------------------------------------------------------------------------
\* The two functions called again and again
\* ------------------------------------------------------------------------
\* how many calls are followed
MaxCalls == 3

CallIncomes == {25659, DefaultIncome}

CallYears == {"2024", "2026"}

InitCalls ==
    /\ TAX_BRACKETS_BY_YEAR = TaxTables
    /\ income = 0
    /\ year = "2025"
    /\ returned = {}
    /\ total_tax = FZero
    /\ breakdown = << >>
    /\ tab1 = Tab1Inputs(0, 0, 0)
    /\ tab2 = Tab2Inputs(<< >>)
    /\ tab3 = Tab3Inputs(0, << >>)
    /\ calls = << >>

\* a call of calculate_tax with any arguments, after whatever came before
CallCalculateTax ==
    /\ Len(calls) < MaxCalls
    /\ \E inc \in CallIncomes : \E yr \in CallYears :
           /\ income' = inc
           /\ year' = yr
           /\ total_tax' = calculate_tax(inc, yr)
           /\ calls' = Append(calls, [ fn |-> "calculate_tax", income |-> inc,
                                       year |-> yr, result |-> calculate_tax(inc, yr) ])
    /\ returned' = returned \cup {"calculate_tax"}
    /\ UNCHANGED << TAX_BRACKETS_BY_YEAR, breakdown, tab1, tab2, tab3 >>

\* a call that appends its entries to the list the call before it returned
CallGetBracketBreakdown_SharedList ==
    /\ Len(calls) < MaxCalls
    /\ \E inc \in CallIncomes : \E yr \in CallYears :
           /\ income' = inc
           /\ year' = yr
           /\ breakdown' = breakdown \o get_bracket_breakdown(inc, yr)
           /\ calls' = Append(calls, [ fn |-> "get_bracket_breakdown", income |-> inc,
                                       year |-> yr,
                                       result |-> breakdown \o get_bracket_breakdown(inc, yr) ])
    /\ returned' = returned \cup {"get_bracket_breakdown"}
    /\ UNCHANGED << TAX_BRACKETS_BY_YEAR, total_tax, tab1, tab2, tab3 >>

\* a call of get_bracket_breakdown with any arguments: its list is a new one
CallGetBracketBreakdown ==
    /\ Len(calls) < MaxCalls
    /\ \E inc \in CallIncomes : \E yr \in CallYears :
           /\ income' = inc
           /\ year' = yr
           /\ breakdown' = get_bracket_breakdown(inc, yr)
           /\ calls' = Append(calls, [ fn |-> "get_bracket_breakdown", income |-> inc,
                                       year |-> yr,
                                       result |-> get_bracket_breakdown(inc, yr) ])
    /\ returned' = returned \cup {"get_bracket_breakdown"}
    /\ UNCHANGED << TAX_BRACKETS_BY_YEAR, total_tax, tab1, tab2, tab3 >>

NextCalls == CallCalculateTax \/ CallGetBracketBreakdown

SpecCalls == InitCalls /\ [][NextCalls]_vars

\* ------------------------------------------------------------------------
\* The two functions over a table as it might be written
\* ------------------------------------------------------------------------
\* TAX_BRACKETS_BY_YEAR is a literal of the module: whatever table is written
\* there is the table the functions read.  The tables a year could be given:
\* the one of the source, and that one with a gap, with an overlap, with two
\* brackets out of order and with a negative rate.
WithGap(t) == [t EXCEPT ![3].min = t[3].min + 500]

WithOverlap(t) == [t EXCEPT ![3].min = t[3].min - 500]

OutOfOrder(t) == [t EXCEPT ![2] = t[3], ![3] = t[2]]

WithNegativeRate(t) == [t EXCEPT ![2].rate = FNeg(t[2].rate)]

WrittenTables(t) == {t, WithGap(t), WithOverlap(t), OutOfOrder(t), WithNegativeRate(t)}

ConfiguredYears == {"2025", "2024"}

Configurations ==
    UNION {{[TaxTables EXCEPT ![y] = t] : t \in WrittenTables(TaxTables[y])} :
               y \in ConfiguredYears}

ConfigIncomes ==
    {TaxTables[y][i].min + d :
        y \in ConfiguredYears, i \in 2..4, d \in (-MaxDelta)..MaxDelta}

InitConfig ==
    /\ TAX_BRACKETS_BY_YEAR \in Configurations
    /\ income \in ConfigIncomes
    /\ year \in ConfiguredYears \cup {"2026"}
    /\ returned = {}
    /\ total_tax = FZero
    /\ breakdown = << >>
    /\ tab1 = Tab1Inputs(0, 0, 0)
    /\ tab2 = Tab2Inputs(<< >>)
    /\ tab3 = Tab3Inputs(0, << >>)
    /\ calls = << >>

SpecConfig == InitConfig /\ [][Next]_vars

\* ------------------------------------------------------------------------
\* Properties of the two functions (checked under Spec)
\* ------------------------------------------------------------------------
Both == {"calculate_tax", "get_bracket_breakdown"}

\* the table a year resolves to
Resolved(yr) == DictGet(TAX_BRACKETS_BY_YEAR, yr, TAX_BRACKETS_BY_YEAR["2025"])

\* sum(e["tax_amount_raw"] for e in entries): left to right, from 0
RECURSIVE SumRaw(_, _)
SumRaw(entries, total) ==
    IF entries = << >> THEN total
    ELSE SumRaw(Tail(entries), FAdd(total, Head(entries).tax_amount_raw))

\* C1: for every year key, known or not, and every income, the raw
\* per-bracket tax amounts of get_bracket_breakdown(income, year) sum to
\* calculate_tax(income, year) exactly (the same float).
C1_BreakdownSumsToTax ==
    returned = Both => SumRaw(breakdown, FFromInt(0)) = total_tax

\* several brackets with a nonzero amount each, under a known year
C1_Witness ==
    /\ returned = Both
    /\ year = "2024"
    /\ Len(breakdown) = 4
    /\ breakdown[4].tax_amount_raw # FZero
    /\ SumRaw(breakdown, FFromInt(0)) = total_tax

\* C2: under every configured year table, tax never decreases as the income
\* grows: calculate_tax(x, year) <= calculate_tax(y, year) for 0 <= x <= y.
C2_TaxMonotonic ==
    ("calculate_tax" \in returned /\ year \in DOMAIN TAX_BRACKETS_BY_YEAR /\ income >= 0)
        => \A y \in Incomes : income <= y => FLeq(total_tax, calculate_tax(y, year))

C2_Witness ==
    /\ "calculate_tax" \in returned
    /\ year = "2023"
    /\ income = 24500
    /\ FLess(total_tax, calculate_tax(24501, year))

\* C3: for every year and every income <= 0, calculate_tax returns 0.
C3_NonPositiveIncomeZeroTax ==
    ("calculate_tax" \in returned /\ income <= 0) => total_tax = FFromInt(0)

C3_Witness == "calculate_tax" \in returned /\ income < 0 /\ total_tax = FFromInt(0)

\* the brackets of the year's table that end at the income (finite bound)
BracketsEndingAt(inc, yr) ==
    {i \in 1..Len(Resolved(yr)) : Resolved(yr)[i].max = inc /\ inc # inf}

\* how far below a bracket's upper bound the tax is compared
MaxEps == 2

\* calculate_tax(U - e) + e * r
SteppedUp(U, e, b, yr) == FAdd(calculate_tax(U - e, yr), FMul(FFromInt(e), b.rate))

\* C4 as claimed: at a bracket's finite upper bound U, with rate r,
\* calculate_tax(U) equals calculate_tax(U - e) + e * r for every e with
\* 0 < e <= U - bracket.min.
C4_ContinuityExact ==
    "calculate_tax" \in returned =>
        \A i \in BracketsEndingAt(income, year) :
            LET b == Resolved(year)[i]
            IN  \A e \in 1..MaxEps :
                    e <= income - b.min => total_tax = SteppedUp(income, e, b, year)

\* C4 as amended: the two sides are equal once rounded to the cent (the
\* two-decimal display); the floats themselves may differ in the last bit.
C4_ContinuityToTheCent ==
    "calculate_tax" \in returned =>
        \A i \in BracketsEndingAt(income, year) :
            LET b == Resolved(year)[i]
            IN  \A e \in 1..MaxEps :
                    e <= income - b.min =>
                        FormatFixed(total_tax, 2) = FormatFixed(SteppedUp(income, e, b, year), 2)

\* the upper bound of the 11% bracket of 2025: the floats differ, the cents agree
C4_Witness ==
    /\ "calculate_tax" \in returned
    /\ year = "2025"
    /\ income = 25659
    /\ BracketsEndingAt(income, year) = {2}
    /\ total_tax # SteppedUp(income, 1, Resolved(year)[2], year)
    /\ FormatFixed(total_tax, 2) = 171545
    /\ FormatFixed(SteppedUp(income, 1, Resolved(year)[2], year), 2) = 171545

\* the contribution of a bracket the income has passed entirely
FullWidthTax(bracket) == FMul(FFromInt(bracket.max - bracket.min), bracket.rate)

\* the full-width contributions of the first n brackets, summed in order
RECURSIVE SumFullWidth(_, _, _, _)
SumFullWidth(brackets, i, n, total) ==
    IF i > n THEN total
    ELSE SumFullWidth(brackets, i + 1, n, FAdd(total, FullWidthTax(brackets[i])))

\* the entries of a breakdown that stand for the bracket starting at lo
EntriesFor(entries, lo) == {j \in 1..Len(entries) : entries[j].Tranche[1] = lo}

\* C5: an income equal to a bracket's lower bound is not taxed in that
\* bracket: calculate_tax returns the full-width contributions of the
\* brackets below it, the breakdown has no entry for it, and 10,064 under
\* the 2025 table gives tax 0.
C5_LowerBoundNotTaxed ==
    \A i \in 1..Len(Resolved(year)) :
        income = Resolved(year)[i].min =>
            /\ "calculate_tax" \in returned =>
                   /\ total_tax = SumFullWidth(Resolved(year), 1, i - 1, FFromInt(0))
                   /\ (income = 10064 /\ Resolved(year) = TAX_BRACKETS_BY_YEAR["2025"])
                          => total_tax = FFromInt(0)
            /\ "get_bracket_breakdown" \in returned =>
                   /\ EntriesFor(breakdown, income) = {}
                   /\ Len(breakdown) = i - 1

C5_Witness ==
    /\ returned = Both
    /\ year = "2025"
    /\ income = 25659
    /\ Resolved(year)[3].min = income
    /\ FormatFixed(total_tax, 2) = 171545
    /\ Len(breakdown) = 2

\* C6: the breakdown has exactly one entry, in ascending bracket order, for
\* each bracket with income > bracket.min, and none for any other bracket;
\* it is empty for income <= 0.
C6_BreakdownEntries ==
    "get_bracket_breakdown" \in returned =>
        /\ \A i \in 1..Len(Resolved(year)) :
               Cardinality(EntriesFor(breakdown, Resolved(year)[i].min))
                   = IF income > Resolved(year)[i].min THEN 1 ELSE 0
        /\ \A j \in 1..Len(breakdown) :
               /\ \E i \in 1..Len(Resolved(year)) :
                      breakdown[j].Tranche[1] = Resolved(year)[i].min
               /\ breakdown[j].Tranche[1] < income
        /\ \A j, k \in 1..Len(breakdown) :
               j < k => breakdown[j].Tranche[1] < breakdown[k].Tranche[1]
        /\ income <= 0 => breakdown = << >>

\* an income inside the third bracket: three entries, two brackets left out
C6_Witness ==
    /\ "get_bracket_breakdown" \in returned
    /\ year = "2022"
    /\ income = 50000
    /\ Len(breakdown) = 3
    /\ breakdown[3].Tranche = << 23850, 68500 >>

\* C7: a year that is no key of TAX_BRACKETS_BY_YEAR gives what "2025"
\* gives, for both functions; the lookup always yields a table.
C7_UnknownYearFallsBack ==
    year \notin DOMAIN TAX_BRACKETS_BY_YEAR =>
        /\ "calculate_tax" \in returned => total_tax = calculate_tax(income, "2025")
        /\ "get_bracket_breakdown" \in returned
               => breakdown = get_bracket_breakdown(income, "2025")

C7_Witness ==
    /\ returned = Both
    /\ year = "2026"
    /\ income = 50000
    /\ FormatFixed(total_tax, 2) = 901775
    /\ Len(breakdown) = 3

\* a table is a partition of [0, infinity) with rates in [0, 1]
IsPartition(brackets) ==
    /\ Len(brackets) >= 1
    /\ brackets[1].min = 0
    /\ brackets[Len(brackets)].max = inf
    /\ \A i \in 1..Len(brackets) :
           /\ brackets[i].min < brackets[i].max
           /\ FLeq(FFromInt(0), brackets[i].rate)
           /\ FLeq(brackets[i].rate, FFromInt(1))
    /\ \A i \in 1..(Len(brackets) - 1) :
           /\ brackets[i].max = brackets[i + 1].min
           /\ brackets[i].max # inf

\* C9: every table of TAX_BRACKETS_BY_YEAR (2022 to 2025) is a gap-free,
\* non-overlapping, strictly increasing partition of [0, infinity) whose
\* rates lie in [0, 1].
C9_TablesArePartitions ==
    /\ DOMAIN TAX_BRACKETS_BY_YEAR = {"2022", "2023", "2024", "2025"}
    /\ \A y \in DOMAIN TAX_BRACKETS_BY_YEAR : IsPartition(TAX_BRACKETS_BY_YEAR[y])

\* the tables as the functions have read them
C9_Witness ==
    /\ returned = Both
    /\ \A y \in {"2022", "2023", "2024", "2025"} :
           /\ Len(TAX_BRACKETS_BY_YEAR[y]) = 5
           /\ IsPartition(TAX_BRACKETS_BY_YEAR[y])

\* the amounts of the column Revenu Imposable, in cents, summed
RECURSIVE SumTaxable(_)
SumTaxable(entries) ==
    IF entries = << >> THEN 0
    ELSE Head(entries).Revenu_Imposable + SumTaxable(Tail(entries))

\* C14: for every year and every income above 0, the entries of
\* get_bracket_breakdown stand for the first brackets of the year's table,
\* in order; every entry but the last covers its bracket's full width
\* (max - min), the last covers income - min; so the per-bracket taxable
\* amounts sum exactly to the income.
C14_EntriesCoverIncome ==
    ("get_bracket_breakdown" \in returned /\ income > 0) =>
        LET brackets == Resolved(year)
            n        == Len(breakdown)
        IN  /\ n \in 1..Len(brackets)
            /\ \A j \in 1..n :
                   /\ breakdown[j].Tranche[1] = brackets[j].min
                   /\ Len(breakdown[j].Tranche) = IF brackets[j].max = inf THEN 1 ELSE 2
                   /\ Len(breakdown[j].Tranche) = 2 => breakdown[j].Tranche[2] = brackets[j].max
                   /\ breakdown[j].Taux = FormatFixed(FMul(brackets[j].rate, FFromInt(100)), 0)
            /\ \A j \in 1..(n - 1) :
                   breakdown[j].Revenu_Imposable = (brackets[j].max - brackets[j].min) * 100
            /\ breakdown[n].Revenu_Imposable = (income - brackets[n].min) * 100
            /\ SumTaxable(breakdown) = income * 100

\* one dollar into the fourth bracket of 2023
C14_Witness ==
    /\ "get_bracket_breakdown" \in returned
    /\ year = "2023"
    /\ income = 70501
    /\ Len(breakdown) = 4
    /\ breakdown[3].Revenu_Imposable = 4600000
    /\ breakdown[4].Revenu_Imposable = 100
    /\ SumTaxable(breakdown) = 7050100

\* ------------------------------------------------------------------------
\* Properties of the simple calculation (checked under SpecTab1)
\* ------------------------------------------------------------------------
\* C8: under the 2025 table, income 50,000 with no deductions and no credits
\* shows per-bracket taxes 0, 1,715.45 and 7,302.30 for the first three
\* brackets and no entry for the upper two, total tax 9,017.75, effective
\* rate 18.04% and net income 40,982.25.
C8_FiftyThousand ==
    (tab1.pc = "shown" /\ tab1.income = 50000
        /\ tab1.total_deductions = 0 /\ tab1.total_credits = 0) =>
        /\ Len(tab1.breakdown) = 3
        /\ tab1.breakdown[1].Tranche = << 0, 10064 >>
        /\ tab1.breakdown[2].Tranche = << 10064, 25659 >>
        /\ tab1.breakdown[3].Tranche = << 25659, 73369 >>
        /\ tab1.breakdown[1].Montant_d_Impot = 0
        /\ tab1.breakdown[2].Montant_d_Impot = 171545
        /\ tab1.breakdown[3].Montant_d_Impot = 730230
        /\ tab1.breakdown[1].tax_amount_raw = FFromInt(0)
        /\ tab1.breakdown[2].tax_amount_raw = FloatLiteral(171545, 100)
        /\ tab1.breakdown[3].tax_amount_raw = FloatLiteral(730230, 100)
        /\ tab1.total_tax = FloatLiteral(901775, 100)
        /\ tab1.metrics.Impot_Total_Du = 901775
        /\ tab1.metrics.Taux_Effectif = 1804
        /\ tab1.metrics.Revenu_Net = 4098225
        /\ tab1.net_income = FloatLiteral(4098225, 100)

C8_Witness ==
    /\ tab1.pc = "shown"
    /\ tab1.income = 50000
    /\ tab1.total_deductions = 0
    /\ tab1.total_credits = 0
    /\ tab1.metrics.Impot_Total_Du = 901775

\* the rows the report lays out are the rows of the breakdown it was handed
ReportItemizes(report, entries) ==
    /\ Len(report.bracket_data) = Len(entries)
    /\ \A j \in 1..Len(entries) :
           report.bracket_data[j]
               = << entries[j].Tranche, entries[j].Taux,
                    entries[j].Revenu_Imposable, entries[j].Montant_d_Impot >>

\* C12 as claimed: for every income above 0 and every total of deductions
\* and of credits, the per-bracket tax amounts of the breakdown handed to
\* the report sum to the total tax the report shows alongside it.
C12_BreakdownSumsToReportedTax ==
    tab1.pc = "shown" =>
        /\ ReportItemizes(tab1.pdf[1], tab1.breakdown)
        /\ FormatFixed(SumRaw(tab1.breakdown, FFromInt(0)), 2)
               = tab1.pdf[1].summary_data.Impot_Total_Du

\* C12 as amended: the per-bracket tax amounts sum to the tax before
\* credits, calculate_tax(taxable income); the total tax the report shows
\* is that sum less the credits, floored at 0, so the two agree when
\* there are no credits.
C12_BreakdownSumsToGrossTax ==
    tab1.pc = "shown" =>
        /\ ReportItemizes(tab1.pdf[1], tab1.breakdown)
        /\ SumRaw(tab1.breakdown, FFromInt(0)) = tab1.gross_tax
        /\ tab1.gross_tax = calculate_tax(PyMax(0, tab1.income - tab1.total_deductions), "2025")
        /\ tab1.pdf[1].summary_data.Impot_Total_Du
               = FormatFixed(FMax(FFromInt(0),
                                  FSub(SumRaw(tab1.breakdown, FFromInt(0)),
                                       FFromInt(tab1.total_credits))), 2)
        /\ tab1.total_credits = 0
               => FormatFixed(SumRaw(tab1.breakdown, FFromInt(0)), 2)
                      = tab1.pdf[1].summary_data.Impot_Total_Du

\* 120,000 with a deduction of 20,000 and a credit of 4,000: the entries
\* sum to the tax before the credit, the report shows 4,000 less
C12_Witness ==
    /\ tab1.pc = "shown"
    /\ tab1.income = 120000
    /\ tab1.total_deductions = 20000
    /\ tab1.total_credits = 4000
    /\ Len(tab1.breakdown) = 4
    /\ FormatFixed(SumRaw(tab1.breakdown, FFromInt(0)), 2)
           = tab1.pdf[1].summary_data.Impot_Total_Du + 400000

YearBefore(yr) ==
    IF yr = "2025" THEN "2024"
    ELSE IF yr = "2024" THEN "2023"
    ELSE IF yr = "2023" THEN "2022"
    ELSE "2021"

\* what the last column shows for tax(yr) - tax(before)
ShownDifference(inc, yr, before) ==
    FormatFixed(FSub(calculate_tax(inc, yr), calculate_tax(inc, before)), 2)

\* the table has one row per selected year, the earliest year first
RowsAscending ==
    /\ Len(tab3.hist_data) = Len(tab3.selected_years)
    /\ {tab3.hist_data[j].Annee : j \in 1..Len(tab3.hist_data)}
           = {tab3.selected_years[j] : j \in 1..Len(tab3.selected_years)}
    /\ \A j \in 2..Len(tab3.hist_data) :
           StrLess(tab3.hist_data[j - 1].Annee, tab3.hist_data[j].Annee)

\* C11 as claimed: for every non-empty selection of years and every income
\* above 0, the row of the earliest selected year shows N/A and the row of
\* every other year shows tax(year) - tax(the year before it), each tax
\* being calculate_tax(income, year).
C11_DifferenceWithYearBefore ==
    tab3.pc = "shown" =>
        /\ RowsAscending
        /\ tab3.hist_data[1].Difference = << >>
        /\ \A j \in 2..Len(tab3.hist_data) :
               /\ tab3.hist_data[j].Difference # << >>
               /\ tab3.hist_data[j].Difference[1]
                      = ShownDifference(tab3.hist_income, tab3.hist_data[j].Annee,
                                        YearBefore(tab3.hist_data[j].Annee))

\* C11 as amended: the row of every other year shows tax(year) - tax(the
\* selected year of the row above), which is the year before only when
\* that year is selected too.
C11_DifferenceWithPreviousRow ==
    tab3.pc = "shown" =>
        /\ RowsAscending
        /\ tab3.hist_data[1].Difference = << >>
        /\ \A j \in 2..Len(tab3.hist_data) :
               /\ tab3.hist_data[j].Difference # << >>
               /\ tab3.hist_data[j].Difference[1]
                      = ShownDifference(tab3.hist_income, tab3.hist_data[j].Annee,
                                        tab3.hist_data[j - 1].Annee)

\* 2024 and 2022 selected without 2023: the row of 2024 shows the
\* difference with 2022, which is not the difference with 2023
C11_Witness ==
    /\ tab3.pc = "shown"
    /\ tab3.hist_income = 75000
    /\ tab3.selected_years = << "2024", "2022" >>
    /\ tab3.hist_data[1].Annee = "2022"
    /\ tab3.hist_data[1].Difference = << >>
    /\ tab3.hist_data[2].Annee = "2024"
    /\ tab3.hist_data[2].Difference[1] = ShownDifference(75000, "2024", "2022")
    /\ tab3.hist_data[2].Difference[1] # ShownDifference(75000, "2024", "2023")

\* ------------------------------------------------------------------------
\* Properties of repeated calls (checked under SpecCalls)
\* ------------------------------------------------------------------------
\* the i-th and the j-th call are the same function with the same arguments
SameCall(i, j) ==
    /\ calls[i].fn = calls[j].fn
    /\ calls[i].income = calls[j].income
    /\ calls[i].year = calls[j].year

\* C13: after any sequence of calculate_tax and get_bracket_breakdown calls,
\* in any order and with any arguments, TAX_BRACKETS_BY_YEAR is as it was
\* at the start, and a call repeated at any later point returned what it
\* returned before.
C13_CallsLeaveNoTrace ==
    /\ TAX_BRACKETS_BY_YEAR = TaxTables
    /\ \A i, j \in 1..Len(calls) :
           (i < j /\ SameCall(i, j)) => calls[j].result = calls[i].result

\* a call repeated after a call of the other function with other arguments
C13_Witness ==
    /\ Len(calls) = 3
    /\ SameCall(1, 3)
    /\ calls[1].fn = "get_bracket_breakdown"
    /\ calls[1].result # << >>
    /\ calls[2].fn = "calculate_tax"
    /\ calls[2].income # calls[1].income
    /\ calls[2].year # calls[1].year
    /\ calls[3].result = calls[1].result

\* ------------------------------------------------------------------------
\* Properties of the two flows (checked under SpecFlows)
\* ------------------------------------------------------------------------
\* 0 <= taxable income <= income, 0 <= total tax <= gross tax <= income and
\* 0 <= net income <= income, gross tax being calculate_tax(taxable income)
WithinIncome(inc, deductions, credits, taxable_income, tax, net_income) ==
    LET gross_tax == calculate_tax(taxable_income, "2025")
    IN  /\ taxable_income = PyMax(0, inc - deductions)
        /\ 0 <= taxable_income
        /\ taxable_income <= inc
        /\ tax = FMax(FFromInt(0), FSub(gross_tax, FFromInt(credits)))
        /\ FLeq(FFromInt(0), tax)
        /\ FLeq(tax, gross_tax)
        /\ FLeq(gross_tax, FFromInt(inc))
        /\ net_income = FSub(FFromInt(inc), tax)
        /\ FLeq(FFromInt(0), net_income)
        /\ FLeq(net_income, FFromInt(inc))

\* C15: in the simple and the comparison flows, for every gross income,
\* deductions and credits from 0 up, taxable income = max(0, income -
\* deductions) lies in [0, income], total tax = max(0, calculate_tax(taxable
\* income) - credits) satisfies 0 <= total tax <= gross tax <= income, and
\* net income = income - total tax lies in [0, income].
C15_TaxAndNetWithinIncome ==
    /\ tab1.pc = "shown" =>
           /\ tab1.gross_tax = calculate_tax(tab1.taxable_income, "2025")
           /\ WithinIncome(tab1.income, tab1.total_deductions, tab1.total_credits,
                           tab1.taxable_income, tab1.total_tax, tab1.net_income)
    /\ tab2.pc = "shown" =>
           \A i \in 1..Len(tab2.scenarios) :
               LET s == tab2.scenarios[i]
               IN  /\ s.income >= 0 /\ s.deductions >= 0 /\ s.credits >= 0
                   /\ WithinIncome(s.income, s.deductions, s.credits,
                                   s.taxable_income, s.tax_owed, s.net_income)

\* the comparison with the deductions above the income in one column and
\* the credits above the tax in another
C15_Witness ==
    /\ tab2.pc = "shown"
    /\ Len(tab2.scenarios) = 3
    /\ tab2.scenarios[1].income = 30000
    /\ tab2.scenarios[1].deductions = 40000
    /\ tab2.scenarios[1].credits = 5000
    /\ tab2.scenarios[1].taxable_income = 0
    /\ tab2.scenarios[1].net_income = FFromInt(30000)
    /\ tab2.scenarios[2].income = 30000
    /\ tab2.scenarios[2].deductions = 0
    /\ tab2.scenarios[2].credits = 5000
    /\ tab2.scenarios[2].tax_owed = FFromInt(0)
    /\ tab2.scenarios[3].income = 0
    /\ tab2.scenarios[3].net_income = FFromInt(0)

====
